---- MODULE Spec2Model ----
(***************************************************************************)
(* Drone telemetry reconciliation: the zustand store (drones,              *)
(* selectedDroneId), the socket "message" handler of App.js with its       *)
(* frozenPosRef map, the isAllowed identity policy, and the effects of     *)
(* App.js that keep the markers, the camera and the counter in step with   *)
(* the store.                                                              *)
(*                                                                         *)
(* JavaScript values are records [type, num, str]; objects are functions   *)
(* from property names to values, and a missing property reads as          *)
(* Undefined.  Object keys and Map keys are TLA+ strings.                  *)
(***************************************************************************)
EXTENDS Integers, Sequences, FiniteSets

VARIABLES
    drones,           \* store: key -> vehicle record          (store drones)
    selectedDroneId,  \* store: selection cursor               (store selectedDroneId)
    frozenPos,        \* App: frozenPosRef.current, key -> {lon, lat, yaw}
    last,             \* history: the most recent "message" event and its outcome
    count,            \* history: key -> number of its accepted messages
    first,            \* history: key -> raw lon/lat/yaw of its first accepted message
    arg,              \* isAllowed call: the argument
    ret,              \* isAllowed call: the result, once returned
    markers,          \* App: markersRef.current, key -> {lngLat, src, rotate}
    counter,          \* App: the number shown after "Red Drones:"
    camera,           \* App: what the selection effect did in the latest commit
    rendered,         \* React: the store values the latest commit was rendered from
    created,          \* history: key -> number of markers constructed for it
    heap,             \* store by reference: the objects allocated, by address
    root,             \* store by reference: the address of state.drones
    held              \* a reader: the address it read state.drones at, and what it saw

view == <<markers, counter, camera, rendered, created>>

\* followed in SpecHeap only
refs == <<heap, root, held>>

vars == <<drones, selectedDroneId, frozenPos, last, count, first, arg, ret, view, refs>>

---------------------------------------------------------------------------
(* Bounds of the model.                                                    *)

MaxEvents == 2    \* accepted telemetry messages in one run
MaxIdLen == 5     \* longest identifier handed to isAllowed on its own

---------------------------------------------------------------------------
(* JavaScript values.                                                      *)

Undefined == [type |-> "undefined", num |-> 0, str |-> ""]
Null == [type |-> "null", num |-> 0, str |-> ""]
NaN == [type |-> "number", num |-> 0, str |-> "NaN"]
Infinity == [type |-> "number", num |-> 0, str |-> "Infinity"]
JSTrue == [type |-> "boolean", num |-> 1, str |-> ""]
JSFalse == [type |-> "boolean", num |-> 0, str |-> ""]

Num(n) == [type |-> "number", num |-> n, str |-> ""]

Str(s) == [type |-> "string", num |-> 0, str |-> s]

\* [s], the array of one string: it stringifies as s
ArrayOf(s) == [type |-> "array", num |-> 0, str |-> s]

EmptyObject == [f \in {} |-> Undefined]

\* obj.f, obj[f]: a missing property reads as undefined
Get(obj, f) == IF f \in DOMAIN obj THEN obj[f] ELSE Undefined

\* ToBoolean
Truthy(v) ==
    CASE v.type = "undefined" -> FALSE
      [] v.type = "null" -> FALSE
      [] v.type = "boolean" -> v.num = 1
      [] v.type = "number" -> IF v.str = "" THEN v.num # 0 ELSE v.str # "NaN"
      [] v.type = "string" -> v.str # ""
      [] OTHER -> TRUE

\* a ?? b
Coalesce(a, b) == IF a.type \in {"undefined", "null"} THEN b ELSE a

\* a || b
OrElse(a, b) == IF Truthy(a) THEN a ELSE b

\* Number.isFinite
IsFinite(v) == v.type = "number" /\ v.str = ""

Digit(d) == SubSeq("0123456789", d + 1, d + 1)

RECURSIVE Decimal(_)
Decimal(n) == IF n < 10 THEN Digit(n) ELSE Decimal(n \div 10) \o Digit(n % 10)

\* String(v), also the property key an object uses for v
String(v) ==
    CASE v.type = "string" -> v.str
      [] v.type = "undefined" -> "undefined"
      [] v.type = "null" -> "null"
      [] v.type = "boolean" -> IF v.num = 1 THEN "true" ELSE "false"
      [] v.type = "number" ->
            IF v.str # "" THEN v.str
            ELSE IF v.num < 0 THEN "-" \o Decimal(0 - v.num) ELSE Decimal(v.num)
      [] v.type = "array" -> v.str

\* String.prototype.startsWith
StartsWith(s, p) == Len(s) >= Len(p) /\ SubSeq(s, 1, Len(p)) = p

\* s[i], 0-based: undefined past the end
CharAt(s, i) == IF i < Len(s) THEN Str(SubSeq(s, i + 1, i + 1)) ELSE Undefined

---------------------------------------------------------------------------
(* IdentityPolicy: App.js isAllowed.                                       *)

ALLOWED_PREFIX == "SD-"
ALLOWED_CHAR == "B"

\* isAllowed reading the character before the one after the prefix
isAllowedOffByOne(id) ==
    IF ~Truthy(id) \/ id.type # "string" THEN FALSE
    ELSE IF ~StartsWith(id.str, ALLOWED_PREFIX) THEN FALSE
    ELSE CharAt(id.str, Len(ALLOWED_PREFIX) + 1) = Str(ALLOWED_CHAR)

isAllowed(id) ==
    IF ~Truthy(id) \/ id.type # "string" THEN FALSE
    ELSE IF ~StartsWith(id.str, ALLOWED_PREFIX) THEN FALSE
    ELSE CharAt(id.str, Len(ALLOWED_PREFIX)) = Str(ALLOWED_CHAR)

---------------------------------------------------------------------------
(* StateStore: the zustand store.                                          *)

\* state.drones[id] || {}
Existing(ds, id) == IF String(id) \in DOMAIN ds THEN ds[String(id)] ELSE EmptyObject

\* PathOf keeping only the latest point
PathOfLatest(existing, droneData) ==
    << <<Get(droneData, "lon"), Get(droneData, "lat")>> >>

\* existing.path ? [...existing.path, [lon, lat]] : [[lon, lat]]
PathOf(existing, droneData) ==
    LET point == <<Get(droneData, "lon"), Get(droneData, "lat")>>
    IN  IF "path" \in DOMAIN existing THEN Append(existing.path, point) ELSE <<point>>

\* existing.firstSeen || Date.now()
FirstSeenOf(existing, now) == OrElse(Get(existing, "firstSeen"), Num(now))

\* Spread the other way round, { ...droneData, ...existing }: stored values win
SpreadExistingWins(existing, droneData) ==
    [f \in DOMAIN existing \cup DOMAIN droneData |->
        IF f \in DOMAIN existing THEN existing[f] ELSE droneData[f]]

\* { ...existing, ...droneData }: every own property of droneData wins,
\* whatever its value
Spread(existing, droneData) ==
    [f \in DOMAIN existing \cup DOMAIN droneData |->
        IF f \in DOMAIN droneData THEN droneData[f] ELSE existing[f]]

\* addOrUpdateDrone without ...state.drones: the map keeps the new record only
addOrUpdateDroneOnly(ds, droneData, now) ==
    LET id == Get(droneData, "id")
        existing == Existing(ds, id)
        merged == Spread(existing, droneData)
        record == [f \in DOMAIN merged \cup {"path", "firstSeen"} |->
                      IF f = "path" THEN PathOf(existing, droneData)
                      ELSE IF f = "firstSeen" THEN FirstSeenOf(existing, now)
                      ELSE merged[f]]
    IN  [k \in {String(id)} |-> record]

\* the drones map addOrUpdateDrone(droneData) leaves in the store
addOrUpdateDrone(ds, droneData, now) ==
    LET id == Get(droneData, "id")
        existing == Existing(ds, id)
        merged == Spread(existing, droneData)
        record == [f \in DOMAIN merged \cup {"path", "firstSeen"} |->
                      IF f = "path" THEN PathOf(existing, droneData)
                      ELSE IF f = "firstSeen" THEN FirstSeenOf(existing, now)
                      ELSE merged[f]]
    IN  [k \in DOMAIN ds \cup {String(id)} |-> IF k = String(id) THEN record ELSE ds[k]]

---------------------------------------------------------------------------
(* The socket "message" handler of App.js.                                 *)

\* destructuring [lon, lat] = coordinates: a missing element is undefined
ElementAt(seq, i) == IF i <= Len(seq) THEN seq[i] ELSE Undefined

\* fc?.features?.[0] exists
HasFeature(fc) == "features" \in DOMAIN fc /\ Len(fc.features) >= 1

\* Feat taking the last feature of the collection
FeatLast(fc) == fc.features[Len(fc.features)]

Feat(fc) == fc.features[1]

\* feat.geometry?.type
GeometryType(feat) ==
    IF "geometry" \in DOMAIN feat THEN Get(feat.geometry, "type") ELSE Undefined

\* feat.geometry.coordinates || []
Coordinates(feat) ==
    IF "coordinates" \in DOMAIN feat.geometry THEN feat.geometry.coordinates ELSE <<>>

\* feat.properties || {}
Properties(feat) == IF "properties" \in DOMAIN feat THEN feat.properties ELSE EmptyObject

\* DropReason testing Number.isFinite on the longitude alone
DropReasonLonOnly(fc) ==
    IF ~HasFeature(fc) THEN "no feature"
    ELSE IF GeometryType(Feat(fc)) # Str("Point") THEN "not a Point"
    ELSE IF ~IsFinite(ElementAt(Coordinates(Feat(fc)), 1)) THEN "not finite"
    ELSE ""

\* why the handler returns early on fc, "" when it does not
DropReason(fc) ==
    IF ~HasFeature(fc) THEN "no feature"
    ELSE IF GeometryType(Feat(fc)) # Str("Point") THEN "not a Point"
    ELSE IF \/ ~IsFinite(ElementAt(Coordinates(Feat(fc)), 1))
            \/ ~IsFinite(ElementAt(Coordinates(Feat(fc)), 2)) THEN "not finite"
    ELSE ""

\* Event without the "SD-UNK" default: the identifier is p.registration as it is
EventNoSentinel(fc) ==
    LET p == Properties(Feat(fc))
    IN  [id |-> Get(p, "registration"),
         lon |-> ElementAt(Coordinates(Feat(fc)), 1),
         lat |-> ElementAt(Coordinates(Feat(fc)), 2),
         yaw |-> Coalesce(Get(p, "yaw"), Num(0)),
         altitude |-> Get(p, "altitude"),
         registration |-> Get(p, "registration"),
         name |-> Get(p, "Name"),
         pilot |-> Get(p, "pilot"),
         organization |-> Get(p, "organization")]

\* Event reading the coordinates as [lat, lon]
EventLatLon(fc) ==
    LET p == Properties(Feat(fc))
    IN  [id |-> OrElse(Get(p, "registration"), Str("SD-UNK")),
         lon |-> ElementAt(Coordinates(Feat(fc)), 2),
         lat |-> ElementAt(Coordinates(Feat(fc)), 1),
         yaw |-> Coalesce(Get(p, "yaw"), Num(0)),
         altitude |-> Get(p, "altitude"),
         registration |-> Get(p, "registration"),
         name |-> Get(p, "Name"),
         pilot |-> Get(p, "pilot"),
         organization |-> Get(p, "organization")]

\* the values the handler reads from an accepted message, before freezing
Event(fc) ==
    LET p == Properties(Feat(fc))
    IN  [id |-> OrElse(Get(p, "registration"), Str("SD-UNK")),
         lon |-> ElementAt(Coordinates(Feat(fc)), 1),
         lat |-> ElementAt(Coordinates(Feat(fc)), 2),
         yaw |-> Coalesce(Get(p, "yaw"), Num(0)),
         altitude |-> Get(p, "altitude"),
         registration |-> Get(p, "registration"),
         name |-> Get(p, "Name"),
         pilot |-> Get(p, "pilot"),
         organization |-> Get(p, "organization")]

\* LockOrCapture without the has(key) test: every message captures anew
LockOrCaptureAlways(fp, key, ev) ==
    [k \in DOMAIN fp \cup {key} |->
        IF k = key THEN [lon |-> ev.lon, lat |-> ev.lat, yaw |-> ev.yaw] ELSE fp[k]]

\* if (!frozenPosRef.current.has(key)) frozenPosRef.current.set(key, {lon, lat, yaw})
LockOrCapture(fp, key, ev) ==
    IF key \in DOMAIN fp THEN fp
    ELSE [k \in DOMAIN fp \cup {key} |->
             IF k = key THEN [lon |-> ev.lon, lat |-> ev.lat, yaw |-> ev.yaw] ELSE fp[k]]

\* frozenPosRef.current.delete(key)
Unlock(fp, key) == [k \in DOMAIN fp \ {key} |-> fp[k]]

\* FreezeGate capturing a lock for every identifier, admitted or not
FreezeGateEvery(fp, ev) == LockOrCapture(fp, String(ev.id), ev)

\* the frozenPosRef map after the handler's branch on isAllowed(id)
FreezeGate(fp, ev) ==
    IF ~isAllowed(ev.id) THEN LockOrCapture(fp, String(ev.id), ev)
    ELSE Unlock(fp, String(ev.id))

\* DroneData passing the live values whatever the classification
DroneDataLive(fp, ev) == ev

\* DroneData freezing the position but passing the live yaw
DroneDataLiveYaw(fp, ev) ==
    IF ~isAllowed(ev.id)
    THEN LET lock == fp[String(ev.id)]
         IN  [ev EXCEPT !.lon = lock.lon, !.lat = lock.lat]
    ELSE ev

\* the object the handler passes to addOrUpdateDrone
DroneData(fp, ev) ==
    IF ~isAllowed(ev.id)
    THEN LET lock == fp[String(ev.id)]
         IN  [ev EXCEPT !.lon = lock.lon, !.lat = lock.lat, !.yaw = lock.yaw]
    ELSE ev

\* history only: what a well-formed message literally carries
MsgId(fc) ==
    LET p == fc.features[1].properties
    IN  IF "registration" \in DOMAIN p THEN p.registration ELSE Str("SD-UNK")

MsgPose(fc) ==
    LET g == fc.features[1].geometry
        p == fc.features[1].properties
        c == IF "coordinates" \in DOMAIN g THEN g.coordinates ELSE <<>>
    IN  [lon |-> IF Len(c) >= 1 THEN c[1] ELSE Undefined,
         lat |-> IF Len(c) >= 2 THEN c[2] ELSE Undefined,
         yaw |-> IF "yaw" \in DOMAIN p THEN p.yaw ELSE Num(0)]

\* history only: the features of a message after its first
Rest(fc) ==
    IF "features" \in DOMAIN fc /\ Len(fc.features) >= 1 THEN Tail(fc.features) ELSE <<>>

\* history only: accepted messages so far
Accepted == LET RECURSIVE Sum(_)
                Sum(S) == IF S = {} THEN 0
                          ELSE LET k == CHOOSE k \in S : TRUE
                               IN  count[k] + Sum(S \ {k})
            IN  Sum(DOMAIN count)

OnMessage(fc, now) ==
    IF DropReason(fc) # ""
    THEN /\ last' = [outcome |-> "dropped", why |-> DropReason(fc), message |-> EmptyObject,
                      rest |-> Rest(fc)]
         /\ UNCHANGED <<drones, selectedDroneId, frozenPos, count, first, arg, ret, view, refs>>
    ELSE LET ev == Event(fc)
             fp == FreezeGate(frozenPos, ev)
             key == MsgId(fc).str
         IN  /\ Accepted < MaxEvents
             /\ frozenPos' = fp
             /\ drones' = addOrUpdateDrone(drones, DroneData(fp, ev), now)
             /\ last' = [outcome |-> "accepted", why |-> "", message |-> fc, rest |-> Rest(fc)]
             /\ count' = [k \in DOMAIN count \cup {key} |->
                             IF k = key
                             THEN (IF key \in DOMAIN count THEN count[key] ELSE 0) + 1
                             ELSE count[k]]
             /\ first' = [k \in DOMAIN first \cup {key} |->
                             IF k \in DOMAIN first THEN first[k] ELSE MsgPose(fc)]
             /\ UNCHANGED <<selectedDroneId, arg, ret, view, refs>>

\* setSelectedDrone refusing an identifier the store holds no record for
setSelectedKnown(id) ==
    /\ selectedDroneId' = IF String(id) \in DOMAIN drones THEN id ELSE selectedDroneId
    /\ UNCHANGED <<drones, frozenPos, last, count, first, arg, ret, view, refs>>

\* store: setSelectedDrone
setSelectedDrone(id) ==
    /\ selectedDroneId' = id
    /\ UNCHANGED <<drones, frozenPos, last, count, first, arg, ret, view, refs>>

---------------------------------------------------------------------------
(* The component's render and its effects.  A commit renders the store     *)
(* values as they are and then runs, in the order of their declaration,    *)
(* the effects one of whose dependencies is a new reference: the marker    *)
(* effect on [drones], the selection effect on [selectedDroneId, drones].  *)
(* Every accepted message stores a new drones object.                      *)

\* the filter of redDrones keeping the admitted records
redDronesAdmitted(ds) == {k \in DOMAIN ds : isAllowed(ds[k].id)}

\* redDrones, as the keys of the records it holds
redDrones(ds) == {k \in DOMAIN ds : ~isAllowed(ds[k].id)}

\* the marker effect applied to one record
MarkerOf(fp, drone) ==
    LET allowed == isAllowed(drone.id)
        imgSrc == IF allowed THEN "/green.svg" ELSE "/red.svg"
        key == String(drone.id)
    IN  [lngLat |-> <<Get(drone, "lon"), Get(drone, "lat")>>,
         src |-> imgSrc,
         rotate |-> IF ~allowed /\ key \in DOMAIN fp
                    THEN OrElse(fp[key].yaw, Num(0))
                    ELSE OrElse(Get(drone, "yaw"), Num(0))]

\* the marker effect placing a marker only when it constructs it
MarkerSyncAtCreation(ms, ds, fp) ==
    [k \in DOMAIN ds |-> IF k \in DOMAIN ms THEN ms[k] ELSE MarkerOf(fp, ds[k])]

\* the marker effect: one marker per record, none for keys that are gone
MarkerSync(ms, ds, fp) ==
    [k \in DOMAIN ds |-> MarkerOf(fp, ds[k])]

\* markers the effect constructs: the records that have none yet
Constructed(ms, ds) == {k \in DOMAIN ds : k \notin DOMAIN ms}

NoFlight == [center |-> <<>>, pulse |-> Null]

\* the selection effect running only when selectedDroneId is new
SelectionEffectOnSelect(ds, ms, sel, selChanged) ==
    IF sel = Null \/ sel = Undefined THEN NoFlight
    ELSE IF String(sel) \notin DOMAIN ds THEN NoFlight
    ELSE IF ~selChanged THEN NoFlight
    ELSE LET d == ds[String(sel)]
         IN  [center |-> <<Get(d, "lon"), Get(d, "lat")>>,
              pulse |-> IF String(sel) \in DOMAIN ms THEN sel ELSE Null]

\* the selection effect: flyTo the selected record, pulse its marker
SelectionEffect(ds, ms, sel, selChanged) ==
    IF sel = Null \/ sel = Undefined THEN NoFlight
    ELSE IF String(sel) \notin DOMAIN ds THEN NoFlight
    ELSE LET d == ds[String(sel)]
         IN  [center |-> <<Get(d, "lon"), Get(d, "lat")>>,
              pulse |-> IF String(sel) \in DOMAIN ms THEN sel ELSE Null]

\* the state once the component has mounted on an empty store
Mounted ==
    /\ markers = EmptyObject
    /\ counter = 0
    /\ camera = NoFlight
    /\ rendered = [version |-> 0, selectedDroneId |-> Null, drones |-> EmptyObject]
    /\ created = EmptyObject

Commit ==
    LET dronesChanged == rendered.version # Accepted
        selChanged == rendered.selectedDroneId # selectedDroneId
        ms == IF dronesChanged THEN MarkerSync(markers, drones, frozenPos) ELSE markers
    IN  /\ dronesChanged \/ selChanged
        /\ rendered' = [version |-> Accepted, selectedDroneId |-> selectedDroneId,
                        drones |-> drones]
        /\ counter' = IF dronesChanged THEN Cardinality(redDrones(drones)) ELSE counter
        /\ markers' = ms
        /\ created' = IF dronesChanged
                      THEN [k \in DOMAIN created \cup Constructed(markers, drones) |->
                               (IF k \in DOMAIN created THEN created[k] ELSE 0)
                               + (IF k \in Constructed(markers, drones) THEN 1 ELSE 0)]
                      ELSE created
        /\ camera' = SelectionEffect(drones, ms, selectedDroneId, selChanged)
        /\ UNCHANGED <<drones, selectedDroneId, frozenPos, last, count, first, arg, ret, refs>>

---------------------------------------------------------------------------
(* The store by reference.  addOrUpdateDrone once more, on a heap of       *)
(* objects: the drones object maps each key to the address of a record,    *)
(* and a record holds its properties and the address of its path array.    *)
(* A reader (a selector, an effect closure) holds the address it read.     *)

\* the drones object at address r, read through to its values
Deref(h, r) ==
    [k \in DOMAIN h[r].slots |->
        LET o == h[h[r].slots[k]]
        IN  [f \in DOMAIN o.fields \cup {"path"} |->
                IF f = "path" THEN h[o.path].items ELSE o.fields[f]]]

\* addOrUpdateDrone pushing the point onto existing.path instead of copying it
setByRefPushing(h, r, droneData, now) ==
    LET key == String(Get(droneData, "id"))
        slots == h[r].slots
        has == key \in DOMAIN slots
        existing == IF has THEN h[slots[key]].fields ELSE EmptyObject
        point == <<Get(droneData, "lon"), Get(droneData, "lat")>>
        pathAt == IF has THEN h[slots[key]].path ELSE Len(h) + 1
        h1 == IF has
              THEN Append([h EXCEPT ![pathAt].items = Append(@, point)],
                          [kind |-> "array", items |-> <<>>])
              ELSE Append(h, [kind |-> "array", items |-> <<point>>])
        merged == Spread(existing, droneData)
        record == [kind |-> "record",
                   fields |-> [f \in DOMAIN merged \cup {"firstSeen"} |->
                                  IF f = "firstSeen" THEN FirstSeenOf(existing, now)
                                  ELSE merged[f]],
                   path |-> pathAt]
        h2 == Append(h1, record)
        object == [kind |-> "object",
                   slots |-> [k \in DOMAIN slots \cup {key} |->
                                 IF k = key THEN Len(h) + 2 ELSE slots[k]]]
    IN  [heap |-> Append(h2, object), root |-> Len(h) + 3]

\* set((state) => ({ drones: { ...state.drones, [id]: { ... } } }))
setByRef(h, r, droneData, now) ==
    LET key == String(Get(droneData, "id"))
        slots == h[r].slots
        has == key \in DOMAIN slots
        existing == IF has THEN h[slots[key]].fields ELSE EmptyObject
        point == <<Get(droneData, "lon"), Get(droneData, "lat")>>
        path == [kind |-> "array",
                 items |-> IF has THEN Append(h[h[slots[key]].path].items, point)
                           ELSE <<point>>]
        h1 == Append(h, path)
        merged == Spread(existing, droneData)
        record == [kind |-> "record",
                   fields |-> [f \in DOMAIN merged \cup {"firstSeen"} |->
                                  IF f = "firstSeen" THEN FirstSeenOf(existing, now)
                                  ELSE merged[f]],
                   path |-> Len(h) + 1]
        h2 == Append(h1, record)
        object == [kind |-> "object",
                   slots |-> [k \in DOMAIN slots \cup {key} |->
                                 IF k = key THEN Len(h) + 2 ELSE slots[k]]]
    IN  [heap |-> Append(h2, object), root |-> Len(h) + 3]

\* the empty store: one drones object, nothing read yet
Unshared ==
    /\ heap = << [kind |-> "object", slots |-> EmptyObject] >>
    /\ root = 1
    /\ held = [root |-> 0, drones |-> EmptyObject]

CallAddOrUpdateDrone(droneData, now) ==
    LET s == setByRef(heap, root, droneData, now)
    IN  /\ Len(heap) < 1 + 3 * MaxEvents
        /\ heap' = s.heap
        /\ root' = s.root
        /\ drones' = addOrUpdateDrone(drones, droneData, now)
        /\ UNCHANGED <<selectedDroneId, frozenPos, last, count, first, arg, ret, view, held>>

\* const drones = useDroneStore((s) => s.drones)
ReadDrones ==
    /\ held.root # root
    /\ held' = [root |-> root, drones |-> Deref(heap, root)]
    /\ UNCHANGED <<drones, selectedDroneId, frozenPos, last, count, first, arg, ret, view,
                   heap, root>>

---------------------------------------------------------------------------
(* The telemetry feed and the other inputs.                                *)

Registrations == {Str("SD-B17"), Str("SD-A02"), Undefined}

\* coordinates and yaw of the well-formed positions on the feed
Poses ==
    { [coordinates |-> <<Num(10), Num(20)>>, yaw |-> Num(45)],
      [coordinates |-> <<Num(99), Num(99)>>, yaw |-> Undefined] }

BadCoordinates == {<<NaN, Num(5)>>, <<Num(5), Infinity>>, <<Num(5)>>}

Metadata ==
    { EmptyObject,
      [altitude |-> Num(80)],
      [altitude |-> Num(120), Name |-> Str("Falcon"), pilot |-> Str("Ann"),
       organization |-> Str("Sager")] }

\* properties: { registration, yaw?, altitude?, Name?, pilot?, organization? }
PropertiesOf(reg, yaw, meta) ==
    LET given == [registration |-> reg, yaw |-> yaw]
        keys == {f \in DOMAIN given : given[f] # Undefined}
    IN  [f \in keys \cup DOMAIN meta |-> IF f \in keys THEN given[f] ELSE meta[f]]

Message(type, coords, props) ==
    [features |-> << [geometry |-> [type |-> type, coordinates |-> coords],
                      properties |-> props] >>]

WellFormed ==
    { Message(Str("Point"), p.coordinates, PropertiesOf(r, p.yaw, m)) :
        p \in Poses, r \in Registrations, m \in Metadata }

Malformed ==
    { [features |-> <<>>], EmptyObject }
    \cup UNION { { [features |-> << [properties |-> PropertiesOf(r, Undefined, EmptyObject)] >>],
                   [features |-> << [geometry |-> [type |-> Str("Point")],
                                     properties |-> PropertiesOf(r, Undefined, EmptyObject)] >>],
                   Message(Str("LineString"), <<Num(10), Num(20)>>,
                           PropertiesOf(r, Undefined, EmptyObject)) }
                 \cup { Message(Str("Point"), c, PropertiesOf(r, Undefined, EmptyObject)) :
                          c \in BadCoordinates }
               : r \in {Str("SD-B17"), Str("SD-A02")} }

\* a feature collection of two features
Pair(fc, gc) == [features |-> fc.features \o gc.features]

\* messages whose second feature is well-formed, for another identifier
TwoFeatures ==
    LET other == Message(Str("Point"), <<Num(10), Num(20)>>,
                         PropertiesOf(Str("SD-A02"), Num(45), [altitude |-> Num(80)]))
    IN  { Pair(Message(Str("Point"), <<Num(99), Num(99)>>,
                       PropertiesOf(Str("SD-B17"), Undefined, EmptyObject)), other),
          Pair(Message(Str("Point"), <<NaN, Num(5)>>,
                       PropertiesOf(Str("SD-B17"), Undefined, EmptyObject)), other),
          Pair(Message(Str("LineString"), <<Num(10), Num(20)>>,
                       PropertiesOf(Str("SD-B17"), Undefined, EmptyObject)), other) }

Messages == WellFormed \cup Malformed \cup TwoFeatures

\* the instants Date.now() may return
Clock == {0, 1000}

SelectIds == {Str("SD-A02"), Null}

---------------------------------------------------------------------------
(* The application.                                                        *)

Init ==
    /\ drones = EmptyObject
    /\ selectedDroneId = Null
    /\ frozenPos = EmptyObject
    /\ last = [outcome |-> "none", why |-> "", message |-> EmptyObject, rest |-> <<>>]
    /\ count = EmptyObject
    /\ first = EmptyObject
    /\ arg = Undefined
    /\ ret = Undefined
    /\ Mounted
    /\ Unshared

Next ==
    \/ \E fc \in Messages, now \in Clock : OnMessage(fc, now)
    \/ \E id \in SelectIds : setSelectedDrone(id)

Spec == Init /\ [][Next]_vars

---------------------------------------------------------------------------
(* The application with its commits, on a feed without metadata.           *)

ViewMessages ==
    {Message(Str("Point"), pose.coordinates, PropertiesOf(reg, pose.yaw, EmptyObject)) :
        reg \in Registrations, pose \in Poses}
    \cup {Message(Str("Point"), <<NaN, Num(20)>>, PropertiesOf(Str("SD-A02"), Num(45), EmptyObject))}

NextView ==
    \/ \E fc \in ViewMessages : OnMessage(fc, 0)
    \/ \E id \in SelectIds : setSelectedDrone(id)
    \/ Commit

SpecView == Init /\ [][NextView]_vars

---------------------------------------------------------------------------
(* The counter, on the stores that one message for each identifier of a    *)
(* set of five has built: the messages are handled as OnMessage handles    *)
(* them, and no commit has run since the mount.                            *)

CountFeed ==
    << Message(Str("Point"), <<Num(10), Num(20)>>, PropertiesOf(Str("SD-B17"), Num(45), EmptyObject)),
       Message(Str("Point"), <<Num(10), Num(20)>>, PropertiesOf(Str("SD-A02"), Num(45), EmptyObject)),
       Message(Str("Point"), <<Num(99), Num(99)>>, PropertiesOf(Str("SD-B20"), Num(45), EmptyObject)),
       Message(Str("Point"), <<Num(99), Num(99)>>, PropertiesOf(Undefined, Num(45), EmptyObject)),
       Message(Str("Point"), <<Num(10), Num(20)>>, PropertiesOf(Str("SD-BX"), Num(45), EmptyObject)) >>

\* the store, the locks and the history after one accepted message
Handled(st, fc) ==
    LET ev == Event(fc)
        fp == FreezeGate(st.frozenPos, ev)
        key == MsgId(fc).str
    IN  [drones |-> addOrUpdateDrone(st.drones, DroneData(fp, ev), 0),
         frozenPos |-> fp,
         last |-> [outcome |-> "accepted", why |-> "", message |-> fc, rest |-> Rest(fc)],
         count |-> [k \in DOMAIN st.count \cup {key} |->
                      IF k = key
                      THEN (IF key \in DOMAIN st.count THEN st.count[key] ELSE 0) + 1
                      ELSE st.count[k]],
         first |-> [k \in DOMAIN st.first \cup {key} |->
                      IF k \in DOMAIN st.first THEN st.first[k] ELSE MsgPose(fc)]]

\* after the messages of CountFeed whose index is in S, from the i-th on
RECURSIVE Replay(_, _, _)
Replay(st, S, i) ==
    IF i > Len(CountFeed) THEN st
    ELSE Replay(IF i \in S THEN Handled(st, CountFeed[i]) ELSE st, S, i + 1)

InitCount ==
    \E S \in SUBSET (1..Len(CountFeed)) :
        LET st == Replay([drones |-> EmptyObject, frozenPos |-> EmptyObject,
                          last |-> [outcome |-> "none", why |-> "", message |-> EmptyObject,
                                    rest |-> <<>>],
                          count |-> EmptyObject, first |-> EmptyObject], S, 1)
        IN  /\ drones = st.drones
            /\ frozenPos = st.frozenPos
            /\ last = st.last
            /\ count = st.count
            /\ first = st.first
            /\ selectedDroneId = Null
            /\ arg = Undefined
            /\ ret = Undefined
            /\ Mounted
            /\ Unshared

NextCount ==
    \/ \E i \in 1..Len(CountFeed) : OnMessage(CountFeed[i], 0)
    \/ Commit

SpecCount == InitCount /\ [][NextCount]_vars

---------------------------------------------------------------------------
(* The store by reference, called with what the handler passes for the     *)
(* first message of an identifier.                                         *)

HeapInputs ==
    {DroneData(FreezeGate(EmptyObject, Event(fc)), Event(fc)) :
        fc \in {gc \in ViewMessages : DropReason(gc) = ""}}

NextHeap ==
    \/ \E droneData \in HeapInputs, now \in Clock : CallAddOrUpdateDrone(droneData, now)
    \/ ReadDrones

SpecHeap == Init /\ [][NextHeap]_vars

---------------------------------------------------------------------------
(* isAllowed on its own, over every short string and the non-strings.      *)

Alphabet == {"S", "D", "-", "B", "A"}

RECURSIVE StringsOfLen(_)
StringsOfLen(n) ==
    IF n = 0 THEN {""} ELSE {s \o c : s \in StringsOfLen(n - 1), c \in Alphabet}

PolicyInputs ==
    {Str(s) : s \in UNION {StringsOfLen(n) : n \in 0..MaxIdLen}}
    \cup {Undefined, Null, NaN, Num(0), Num(7), JSTrue, JSFalse, ArrayOf("SD-B17")}

CallIsAllowed ==
    /\ ret = Undefined
    /\ ret' = IF isAllowed(arg) THEN JSTrue ELSE JSFalse
    /\ UNCHANGED <<drones, selectedDroneId, frozenPos, last, count, first, arg, view, refs>>

InitPolicy ==
    /\ drones = EmptyObject
    /\ selectedDroneId = Null
    /\ frozenPos = EmptyObject
    /\ last = [outcome |-> "none", why |-> "", message |-> EmptyObject, rest |-> <<>>]
    /\ count = EmptyObject
    /\ first = EmptyObject
    /\ arg \in PolicyInputs
    /\ ret = Undefined
    /\ Mounted
    /\ Unshared

NextPolicy == CallIsAllowed

SpecPolicy == InitPolicy /\ [][NextPolicy]_vars

---------------------------------------------------------------------------
(* Vocabulary of the properties below.                                     *)

\* the identifiers the policy admits, in the words of the specification
Admitted(k) == Len(k) >= 4 /\ SubSeq(k, 1, 3) = "SD-" /\ SubSeq(k, 4, 4) = "B"

\* the latest message was accepted and was for identifier k
LastWasFor(k) == last.outcome = "accepted" /\ MsgId(last.message).str = k

\* the step accepts a message for identifier k
Accepts(k) ==
    /\ k \in DOMAIN count'
    /\ count'[k] = (IF k \in DOMAIN count THEN count[k] ELSE 0) + 1

Position(pose) == <<pose.lon, pose.lat>>

---------------------------------------------------------------------------
(* C1: a restricted identifier's stored lon, lat and yaw are those of the  *)
(* first well-formed message received for it, after every message.         *)

C1_FrozenAtFirst ==
    \A k \in DOMAIN drones :
        ~Admitted(k) => /\ drones[k].lon = first[k].lon
                        /\ drones[k].lat = first[k].lat
                        /\ drones[k].yaw = first[k].yaw

\* reached: a second message for a restricted identifier, elsewhere than the first
C1_Witness ==
    \E k \in DOMAIN drones :
        /\ ~Admitted(k)
        /\ count[k] = 2
        /\ LastWasFor(k)
        /\ MsgPose(last.message) # first[k]

---------------------------------------------------------------------------
(* C2: every accepted message for an identifier appends its effective      *)
(* position to the identifier's path, which then has as many elements as   *)
(* messages were accepted for it; no other step changes any path, and no   *)
(* path is ever dropped.                                                   *)

C2_PathAppendOnly ==
    [][ /\ DOMAIN drones \subseteq DOMAIN drones'
        /\ \A k \in DOMAIN drones' :
              LET old == IF k \in DOMAIN drones THEN drones[k].path ELSE <<>>
                  effective == IF Admitted(k) THEN Position(MsgPose(last'.message))
                               ELSE Position(first'[k])
              IN  IF Accepts(k)
                  THEN /\ drones'[k].path = Append(old, effective)
                       /\ Len(drones'[k].path) = count'[k]
                  ELSE drones'[k].path = old ]_vars

\* reached: a path of two different points, then a dropped message and a selection
C2_Witness ==
    \E k \in DOMAIN drones :
        /\ Len(drones[k].path) = 2
        /\ drones[k].path[1] # drones[k].path[2]
        /\ last.outcome = "dropped"
        /\ selectedDroneId # Null

---------------------------------------------------------------------------
(* C3: a message that omits a metadata field (altitude, registration,      *)
(* name, pilot, organization) leaves the value an earlier message stored   *)
(* for the same identifier unchanged.                                      *)

\* metadata field of the record -> property of the message that carries it
MetadataFields ==
    [altitude |-> "altitude", registration |-> "registration", name |-> "Name",
     pilot |-> "pilot", organization |-> "organization"]

C3_MetadataKept ==
    [][ \A k \in DOMAIN drones : \A f \in DOMAIN MetadataFields :
            ( /\ Accepts(k)
              /\ MetadataFields[f] \notin DOMAIN last'.message.features[1].properties
              /\ drones[k][f] # Undefined )
            => drones'[k][f] = drones[k][f] ]_vars

---------------------------------------------------------------------------
(* C4: firstSeen is stamped at the first accepted message of an identifier *)
(* and no later message of that identifier changes it, whatever the clock  *)
(* read at the first one.                                                  *)

C4_FirstSeenFixed ==
    [][ \A k \in DOMAIN drones :
            k \in DOMAIN drones' /\ drones'[k].firstSeen = drones[k].firstSeen ]_vars

---------------------------------------------------------------------------
(* C5: a malformed message (no first feature, a geometry type other than   *)
(* "Point", missing coordinates, a non-finite longitude or latitude)       *)
(* leaves the state map, the lock map and the selection as they were.      *)

IsFiniteNumber(v) == v.type = "number" /\ v \notin {NaN, Infinity}

IsMalformed(fc) ==
    \/ "features" \notin DOMAIN fc
    \/ fc.features = <<>>
    \/ "geometry" \notin DOMAIN fc.features[1]
    \/ "type" \notin DOMAIN fc.features[1].geometry
    \/ fc.features[1].geometry.type # Str("Point")
    \/ "coordinates" \notin DOMAIN fc.features[1].geometry
    \/ Len(fc.features[1].geometry.coordinates) < 2
    \/ ~IsFiniteNumber(fc.features[1].geometry.coordinates[1])
    \/ ~IsFiniteNumber(fc.features[1].geometry.coordinates[2])

\* No malformed message is accepted, and the step that drops a message (it
\* records the drop in last) changes none of the three.
C5_MalformedDropped ==
    [][ /\ last'.outcome = "accepted" => ~IsMalformed(last'.message)
        /\ (last'.outcome = "dropped" /\ last' # last)
           => UNCHANGED <<drones, frozenPos, selectedDroneId>> ]_vars

\* reached: a message with a non-finite coordinate dropped while vehicles and a
\* lock are held and a vehicle is selected
C5_Witness ==
    /\ last.outcome = "dropped"
    /\ last.why = "not finite"
    /\ drones # EmptyObject
    /\ frozenPos # EmptyObject
    /\ selectedDroneId # Null

---------------------------------------------------------------------------
(* C6: isAllowed(id) is true exactly when id is a string that starts with  *)
(* "SD-" and has "B" at index 3; it is false for every other input, and    *)
(* the characters after index 3 do not matter.                             *)

Matches(v) ==
    /\ v.type = "string"
    /\ Len(v.str) >= 4
    /\ SubSeq(v.str, 1, 3) = "SD-"
    /\ SubSeq(v.str, 4, 4) = "B"

C6_IsAllowedIff ==
    ret # Undefined => /\ ret \in {JSTrue, JSFalse}
                       /\ (ret = JSTrue) <=> Matches(arg)

\* reached: an admitted identifier with a character after index 3
C6_Witness == ret = JSTrue /\ arg = Str("SD-BA")

---------------------------------------------------------------------------
(* C7: for an admitted identifier the stored lon, lat and yaw are the live *)
(* values of its latest accepted message, and its first accepted message   *)
(* leaves a path of that one position.                                     *)

C7_AdmittedLive ==
    \A k \in DOMAIN count :
        (Admitted(k) /\ LastWasFor(k))
        => LET pose == MsgPose(last.message)
           IN  /\ k \in DOMAIN drones
               /\ drones[k].lon = pose.lon
               /\ drones[k].lat = pose.lat
               /\ drones[k].yaw = pose.yaw
               /\ count[k] = 1 => drones[k].path = <<Position(pose)>>

\* reached: an admitted vehicle whose second message moved it
C7_Witness ==
    \E k \in DOMAIN drones :
        /\ Admitted(k)
        /\ LastWasFor(k)
        /\ count[k] = 2
        /\ MsgPose(last.message) # first[k]
        /\ drones[k].path = <<Position(first[k]), Position(MsgPose(last.message))>>

---------------------------------------------------------------------------
(* C8: no lock exists for an identifier after a message classified         *)
(* admitted was reconciled for it; the lock map holds one lock (lon, lat,  *)
(* yaw) per key and only keys of restricted identifiers.                   *)

C8_LocksOnlyRestricted ==
    /\ \A k \in DOMAIN count : (Admitted(k) /\ LastWasFor(k)) => k \notin DOMAIN frozenPos
    /\ \A k \in DOMAIN frozenPos :
          ~Admitted(k) /\ DOMAIN frozenPos[k] = {"lon", "lat", "yaw"}

\* reached: an admitted message reconciled while another identifier holds a lock
C8_Witness ==
    /\ frozenPos # EmptyObject
    /\ \E k \in DOMAIN drones : Admitted(k) /\ LastWasFor(k)

---------------------------------------------------------------------------
(* C9: a lock, once created, is neither modified nor deleted by any step,  *)
(* except by a message classified admitted for its identifier.             *)

C9_LockAbsorbing ==
    [][ \A k \in DOMAIN frozenPos :
            \/ k \in DOMAIN frozenPos' /\ frozenPos'[k] = frozenPos[k]
            \/ Admitted(k) /\ Accepts(k) ]_vars

\* reached: a lock that has been through a second message elsewhere for its
\* identifier, a dropped message and a selection
C9_Witness ==
    \E k \in DOMAIN frozenPos :
        /\ count[k] = 2
        /\ frozenPos[k] = first[k]
        /\ last.outcome = "dropped"
        /\ selectedDroneId = Str(k)

---------------------------------------------------------------------------
(* C10: every restricted identifier in the state map has a lock, its       *)
(* stored lon, lat and yaw are the lock's, and its path is one copy of the *)
(* lock's position per accepted message.                                   *)

C10_FrozenPath ==
    \A k \in DOMAIN drones :
        ~Admitted(k)
        => /\ k \in DOMAIN frozenPos
           /\ drones[k].lon = frozenPos[k].lon
           /\ drones[k].lat = frozenPos[k].lat
           /\ drones[k].yaw = frozenPos[k].yaw
           /\ Len(drones[k].path) = count[k]
           /\ \A i \in 1..Len(drones[k].path) : drones[k].path[i] = Position(frozenPos[k])

\* reached: a restricted vehicle with the same point twice on its path, its
\* second message having come from elsewhere
C10_Witness ==
    \E k \in DOMAIN drones :
        /\ ~Admitted(k)
        /\ LastWasFor(k)
        /\ Position(MsgPose(last.message)) # Position(frozenPos[k])
        /\ drones[k].path = <<Position(frozenPos[k]), Position(frozenPos[k])>>

---------------------------------------------------------------------------
(* C11: setSelectedDrone(id) leaves selectedDroneId equal to id for any    *)
(* id, whether or not the state map has a record for it; it changes no     *)
(* entry of the state map, and no telemetry message changes the selection. *)

C11_SelectionFrame ==
    [][ /\ \A id \in SelectIds : ENABLED (setSelectedDrone(id) /\ selectedDroneId' = id)
        /\ selectedDroneId' # selectedDroneId => drones' = drones
        /\ (last' # last \/ count' # count) => selectedDroneId' = selectedDroneId ]_vars

\* reached: an identifier selected that has no record, while another has one
C11_Witness ==
    /\ selectedDroneId = Str("SD-A02")
    /\ "SD-A02" \notin DOMAIN drones
    /\ drones # EmptyObject

---------------------------------------------------------------------------
(* C14: a record, once created, is never removed: the key set of the state *)
(* map only grows, and the record stored under key k always has id k.      *)

C14_KeysOnlyGrow ==
    [][ /\ DOMAIN drones \subseteq DOMAIN drones'
        /\ \A k \in DOMAIN drones' : drones'[k].id = Str(k)
        /\ \A k \in DOMAIN drones : drones'[k].id = drones[k].id ]_vars

\* reached: two records, the older one still there after a dropped message and
\* a selection
C14_Witness ==
    /\ DOMAIN drones = {"SD-A02", "SD-B17"}
    /\ last.outcome = "dropped"
    /\ selectedDroneId = Str("SD-A02")

---------------------------------------------------------------------------
(* C15: a message without a registration is reconciled under "SD-UNK",     *)
(* which is restricted: all such messages merge into the one record of     *)
(* that key, frozen at the position and yaw of the first of them.          *)

NoRegistration(fc) == "registration" \notin DOMAIN fc.features[1].properties

C15_SentinelFrozen ==
    (last.outcome = "accepted" /\ NoRegistration(last.message))
    => /\ ~Admitted("SD-UNK")
       /\ "SD-UNK" \in DOMAIN drones
       /\ "SD-UNK" \in DOMAIN frozenPos
       /\ drones["SD-UNK"].id = Str("SD-UNK")
       /\ Len(drones["SD-UNK"].path) = count["SD-UNK"]
       /\ drones["SD-UNK"].lon = first["SD-UNK"].lon
       /\ drones["SD-UNK"].lat = first["SD-UNK"].lat
       /\ drones["SD-UNK"].yaw = first["SD-UNK"].yaw

\* reached: a second message without registration, from elsewhere than the first
C15_Witness ==
    /\ last.outcome = "accepted"
    /\ NoRegistration(last.message)
    /\ DOMAIN drones = {"SD-UNK"}
    /\ count["SD-UNK"] = 2
    /\ MsgPose(last.message) # first["SD-UNK"]

---------------------------------------------------------------------------
(* C16: only the first feature of a message is consulted: a message causes *)
(* at most one reconciliation, for the identifier of its first feature;    *)
(* later features change nothing, and a message whose first feature is     *)
(* malformed is dropped whatever follows it.                               *)

C16_FirstFeatureOnly ==
    [][ (last' # last \/ count' # count)
        => IF last'.outcome = "dropped"
           THEN UNCHANGED <<drones, frozenPos, count>>
           ELSE LET key == MsgId(last'.message).str
                IN  /\ Accepts(key)
                    /\ \A k \in (DOMAIN drones' \cup DOMAIN frozenPos') \ {key} :
                          /\ k \in DOMAIN drones' => k \in DOMAIN drones /\ drones'[k] = drones[k]
                          /\ k \in DOMAIN frozenPos'
                                => k \in DOMAIN frozenPos /\ frozenPos'[k] = frozenPos[k] ]_vars

\* reached: a two-feature message accepted for its first feature, the vehicle of
\* its well-formed second feature unknown to the store
C16_Witness ==
    /\ last.outcome = "accepted"
    /\ Len(last.rest) = 1
    /\ IsMalformed([features |-> last.rest]) = FALSE
    /\ MsgId([features |-> last.rest]).str \notin DOMAIN drones

---------------------------------------------------------------------------
(* C17: freezing covers position and yaw only: for a restricted identifier *)
(* that already holds a lock, an accepted message stores the altitude,     *)
(* name, pilot and organization it carries, while lon, lat and yaw stay at *)
(* the locked values.                                                      *)

Carried == [altitude |-> "altitude", name |-> "Name", pilot |-> "pilot",
            organization |-> "organization"]

C17_FrozenMetadataLive ==
    \A k \in DOMAIN count :
        (~Admitted(k) /\ LastWasFor(k) /\ count[k] >= 2)
        => LET p == last.message.features[1].properties
           IN  /\ \A f \in DOMAIN Carried :
                     Carried[f] \in DOMAIN p => drones[k][f] = p[Carried[f]]
               /\ drones[k].lon = first[k].lon
               /\ drones[k].lat = first[k].lat
               /\ drones[k].yaw = first[k].yaw

\* reached: a locked vehicle whose second message, from elsewhere, brought
\* altitude 120 and a pilot
C17_Witness ==
    \E k \in DOMAIN frozenPos :
        /\ LastWasFor(k)
        /\ count[k] = 2
        /\ MsgPose(last.message) # first[k]
        /\ drones[k].altitude = Num(120)
        /\ drones[k].pilot = Str("Ann")

---------------------------------------------------------------------------
(* C18: after every commit the marker cache holds exactly the identifiers  *)
(* of the snapshot the commit rendered; each marker was constructed once,  *)
(* stands at the stored lon/lat of its vehicle, and shows the green icon   *)
(* for an admitted identifier and the red icon for a restricted one.       *)

IconOf(k) == IF Admitted(k) THEN "/green.svg" ELSE "/red.svg"

C18_MarkersMatchSnapshot ==
    /\ DOMAIN markers = DOMAIN rendered.drones
    /\ DOMAIN created = DOMAIN markers
    /\ \A k \in DOMAIN markers :
          /\ created[k] = 1
          /\ markers[k].lngLat = <<rendered.drones[k].lon, rendered.drones[k].lat>>
          /\ markers[k].src = IconOf(k)

\* every message of the run is rendered and an admitted vehicle's marker
\* has followed it from its first position to a later one
C18_Witness ==
    /\ rendered.version = MaxEvents
    /\ "SD-B17" \in DOMAIN markers
    /\ count["SD-B17"] >= 2
    /\ markers["SD-B17"].lngLat = <<Num(99), Num(99)>>
    /\ first["SD-B17"].lon = Num(10)
    /\ markers["SD-B17"].src = "/green.svg"

---------------------------------------------------------------------------
(* C19: a commit with a selected identifier the store holds no record for  *)
(* moves no camera and highlights nothing, and it always completes; when   *)
(* the identifier is still selected and a message has since created its    *)
(* record, the next commit flies to that record's lon/lat and highlights   *)
(* its marker.                                                             *)

\* the key of the selected identifier, "" when nothing is selected
SelectedKey == IF selectedDroneId.type = "string" THEN selectedDroneId.str ELSE ""

Stale == rendered.version # Accepted \/ rendered.selectedDroneId # selectedDroneId

C19_UnknownSelection ==
    [][ /\ Stale => ENABLED Commit
        /\ (rendered' # rendered /\ selectedDroneId # Null /\ SelectedKey \notin DOMAIN drones)
               => camera'.center = <<>> /\ camera'.pulse = Null
        /\ (/\ rendered' # rendered
            /\ selectedDroneId # Null
            /\ rendered.selectedDroneId = selectedDroneId
            /\ SelectedKey \notin DOMAIN rendered.drones
            /\ SelectedKey \in DOMAIN drones)
               => /\ camera'.center = <<drones[SelectedKey].lon, drones[SelectedKey].lat>>
                  /\ camera'.pulse = selectedDroneId ]_vars

\* the selection of an unknown identifier was rendered without a flight,
\* and a message has since created the record of that identifier
C19_Witness ==
    /\ selectedDroneId = Str("SD-A02")
    /\ rendered.selectedDroneId = Str("SD-A02")
    /\ "SD-A02" \notin DOMAIN rendered.drones
    /\ camera.center = <<>>
    /\ camera.pulse = Null
    /\ LastWasFor("SD-A02")

---------------------------------------------------------------------------
(* C20: a commit that finds the selection as the previous commit left it,  *)
(* on an identifier whose record the previous commit already rendered,     *)
(* moves no camera and highlights nothing: accepted messages alone do not  *)
(* trigger flyTo or the pulse.                                             *)

C20_NoRefocusOnTelemetry ==
    [][ (/\ rendered' # rendered
         /\ selectedDroneId # Null
         /\ rendered.selectedDroneId = selectedDroneId
         /\ SelectedKey \in DOMAIN rendered.drones)
            => camera'.center = <<>> /\ camera'.pulse = Null ]_vars

---------------------------------------------------------------------------
(* C12: the number shown as "Red Drones" is the number of identifiers of   *)
(* the rendered store that the policy rejects, and a commit that finds the *)
(* identifiers it rendered before shows the number it showed before.       *)

Restricted(ds) == {k \in DOMAIN ds : ~Admitted(k)}

C12_RestrictedCount ==
    [][ /\ counter' = Cardinality(Restricted(rendered'.drones))
        /\ DOMAIN rendered'.drones = DOMAIN rendered.drones => counter' = counter ]_vars

\* three admitted and two restricted identifiers are rendered: the counter shows 2
C12_Witness ==
    /\ rendered.drones = drones
    /\ Cardinality(DOMAIN drones \ Restricted(drones)) = 3
    /\ Cardinality(Restricted(drones)) = 2
    /\ counter = 2

---------------------------------------------------------------------------
(* C13: a call of addOrUpdateDrone for identifier A changes no object that *)
(* exists: what a reader read at the address it holds still reads the      *)
(* same, map and paths.  The new drones object differs from the old one    *)
(* at A only, where it holds a record and a path built in this call, and   *)
(* it reads as the map addOrUpdateDrone computes.                          *)

Addresses(h) == 1..Len(h)

C13_ReplacedNotMutated ==
    [][ /\ held.root # 0 => Deref(heap', held.root) = held.drones
        /\ root' # root =>
              LET old == heap[root].slots
                  new == heap'[root'].slots
                  changed == {k \in DOMAIN new : k \notin DOMAIN old \/ new[k] # old[k]}
              IN  /\ \A r \in Addresses(heap) : heap'[r] = heap[r]
                  /\ root' \notin Addresses(heap)
                  /\ DOMAIN old \subseteq DOMAIN new
                  /\ Cardinality(changed) = 1
                  /\ \A k \in changed : /\ new[k] \notin Addresses(heap)
                                        /\ heap'[new[k]].path \notin Addresses(heap)
                  /\ \A k \in DOMAIN old \ changed :
                        Deref(heap', root')[k] = Deref(heap, root)[k]
                  /\ Deref(heap', root') = drones' ]_vars

\* a reader holds the map it read before the second message of SD-B17
C13_Witness ==
    /\ held.root # 0
    /\ held.root # root
    /\ "SD-B17" \in DOMAIN held.drones
    /\ Len(held.drones["SD-B17"].path) = 1
    /\ Len(drones["SD-B17"].path) = 2
    /\ Deref(heap, root) = drones

====
